---------------------------- MODULE Spec2Model ----------------------------
(***************************************************************************)
(* A model of pigeon: the interactive dispatcher of src/src/bot.ts (message *)
(* queue, drain loop, processMessage, splitMessage) and the durable task    *)
(* store and background worker of src/src/queue.ts (TaskQueue,              *)
(* createAgent/createWorker).                                               *)
(*                                                                         *)
(* JavaScript runs handlers to completion: one action of the model is one   *)
(* run of the event loop, from the event that starts it (an inbound text, a *)
(* promise settling, a timer firing, a call of the API) to the next await   *)
(* that really suspends.                                                    *)
(***************************************************************************)
EXTENDS Integers, Sequences, FiniteSets, TLC

VARIABLES
    \* ---- src/src/bot.ts, createBot ----
    messageQueue,   \* Array<{chatId, text}>, bot.ts:44
    processing,     \* boolean, bot.ts:45
    drains,         \* the drainQueue() invocations suspended at an await
    enqueued,       \* history: the texts passed to enqueue, in call order
    prompted,       \* history: the texts passed to agent.prompt, in call order
    updates,        \* history: the inbound updates, in order, each with what
                    \* the middleware and the handlers did with it
    split,          \* a call of splitMessage on its own: its text, its position
                    \* and the chunks it returned
    replies,        \* history: for each processMessage call that has returned,
                    \* in order, how many of its sends resolved and rejected
    \* ---- src/src/queue.ts, TaskQueue ----
    tasks,          \* private tasks: Task[], queue.ts:16
    disk,           \* {<dataDir>/queue.json}, or NoFile; the file is its text
                    \* and whether the text is complete (not cut short)
    now,            \* Date.now()
    ret,            \* what the last TaskQueue or tool call returned (and which call)
    serial,         \* history: serial[i] is the insertion number of tasks[i]
    \* ---- src/src/queue.ts, createAgent ----
    mainSession,    \* queue.ts:495, the session the variable refers to: its
                    \* identity and whether dispose() has been called on it
    resets,         \* the reset() calls awaiting createAgentSession
    \* ---- src/src/queue.ts, Memory ----
    memFiles,       \* <dataDir>/memory: for each week, its file if it exists
    \* ---- src/src/queue.ts, createAgent / createWorker ----
    workerRunning,  \* queue.ts:602
    workerTimeout,  \* queue.ts:603, a timer handle or NoTimer
    timers,         \* the setTimeout(tick, ..) handles that have not fired
    ticks,          \* the tick() invocations suspended at an await
    nAdded,         \* history: number of add calls so far
    nStarts,        \* history: number of start() calls so far
    life,           \* history: "up"; "stopped" from a stop() to the next start();
                    \* "exited" once process.exit has been called; "crashed"
                    \* once the process has ended in any other way
    stateFile,      \* the .shutdown file of index.ts: NoState or the signal written
    wlog            \* history: what the worker did, in order

botVars    == <<messageQueue, processing, drains, enqueued, prompted, replies,
               updates, split, mainSession, resets>>
storeVars  == <<tasks, disk, now, ret, serial, nAdded, memFiles>>
workerVars == <<workerRunning, workerTimeout, timers, ticks, nStarts, wlog, life, stateFile>>
vars       == <<messageQueue, processing, drains, enqueued, prompted, replies,
                updates, split, mainSession, resets,
                tasks, disk, now, ret, serial, nAdded, memFiles,
                workerRunning, workerTimeout, timers, ticks, nStarts, wlog, life, stateFile>>

(***************************************************************************)
(* Bounds of the model.                                                     *)
(***************************************************************************)
MaxMsgs  == 3      \* enqueue calls in one behaviour
MaxTasks == 2      \* add calls in one behaviour
MaxTime  == 1      \* the clock runs 0..MaxTime
MaxStarts == 2     \* start() calls in one behaviour
MaxLog   == 8      \* entries kept in the worker history
MaxUpdates == 3    \* inbound updates in one behaviour
MaxLen   == 9      \* length of the texts splitMessage is called with

(***************************************************************************)
(* Text: a string is a sequence of one-character strings.                   *)
(***************************************************************************)
SP == " "
NL == "\n"
IsSpace(c) == c \in {SP, NL}

Max(S) == CHOOSE x \in S : \A y \in S : y <= x

\* String.prototype.slice(a, b) for 0 <= a <= b <= length
Slice(s, a, b) == SubSeq(s, a + 1, b)

\* String.prototype.lastIndexOf(pat, pos): the greatest 0-based index <= pos at
\* which pat occurs, or -1
LastIndexOf(s, pat, pos) ==
    LET cand == { i \in 0..pos : /\ i + Len(pat) <= Len(s)
                                 /\ \A k \in 1..Len(pat) : s[i + k] = pat[k] }
    IN  IF cand = {} THEN -1 ELSE Max(cand)

\* A remainder that starts one character after the cut, whitespace or not: the
\* fault that C22 excludes
DropFirst(s) == IF s = <<>> THEN s ELSE Tail(s)
RECURSIVE TrimStart(_)
TrimStart(s) ==
    IF s # <<>> /\ IsSpace(Head(s)) THEN TrimStart(Tail(s)) ELSE s

\* TELEGRAM_MAX_LENGTH, scaled from 4096 so that texts longer than the limit
\* can be enumerated
TELEGRAM_MAX_LENGTH == 4

\* A search for the boundary in the whole of the text, not up to the limit:
\* the fault that C20 excludes
SplitAtAnywhere(remaining) ==
    LET L  == TELEGRAM_MAX_LENGTH
        R  == Len(remaining)
        s1 == LastIndexOf(remaining, <<NL, NL>>, R)
        s2 == IF 2 * s1 < L THEN LastIndexOf(remaining, <<NL>>, R) ELSE s1
        s3 == IF 2 * s2 < L THEN LastIndexOf(remaining, <<SP>>, R) ELSE s2
    IN  IF 2 * s3 < L THEN L ELSE s3
\* A boundary taken wherever it is found, however early: the fault that C23
\* excludes
SplitAtNoThreshold(remaining) ==
    LET L  == TELEGRAM_MAX_LENGTH
        s1 == LastIndexOf(remaining, <<NL, NL>>, L)
        s2 == IF s1 < 0 THEN LastIndexOf(remaining, <<NL>>, L) ELSE s1
        s3 == IF s2 < 0 THEN LastIndexOf(remaining, <<SP>>, L) ELSE s2
    IN  IF s3 < 0 THEN L ELSE s3
\* The three searches in the reverse order, the space first: the fault that
\* C34 excludes
SplitAtSpaceFirst(remaining) ==
    LET L  == TELEGRAM_MAX_LENGTH
        s1 == LastIndexOf(remaining, <<SP>>, L)
        s2 == IF 2 * s1 < L THEN LastIndexOf(remaining, <<NL>>, L) ELSE s1
        s3 == IF 2 * s2 < L THEN LastIndexOf(remaining, <<NL, NL>>, L) ELSE s2
    IN  IF 2 * s3 < L THEN L ELSE s3
\* bot.ts:24-33; splitAt < TELEGRAM_MAX_LENGTH / 2 is 2 * splitAt < limit
SplitAt(remaining) ==
    LET L  == TELEGRAM_MAX_LENGTH
        s1 == LastIndexOf(remaining, <<NL, NL>>, L)
        s2 == IF 2 * s1 < L THEN LastIndexOf(remaining, <<NL>>, L) ELSE s1
        s3 == IF 2 * s2 < L THEN LastIndexOf(remaining, <<SP>>, L) ELSE s2
    IN  IF 2 * s3 < L THEN L ELSE s3

\* bot.ts:17-37, the while loop
RECURSIVE SplitLoop(_, _)
SplitLoop(remaining, chunks) ==
    IF Len(remaining) = 0 THEN chunks
    ELSE IF Len(remaining) <= TELEGRAM_MAX_LENGTH THEN Append(chunks, remaining)
    ELSE LET splitAt == SplitAt(remaining)
         IN  SplitLoop(TrimStart(Slice(remaining, splitAt, Len(remaining))),
                       Append(chunks, Slice(remaining, 0, splitAt)))

\* The loop entered for every text, short ones too: the fault that C21 excludes
splitMessageAlwaysLoops(text) == SplitLoop(text, <<>>)
\* bot.ts:11-40
splitMessage(text) ==
    IF Len(text) <= TELEGRAM_MAX_LENGTH THEN <<text>> ELSE SplitLoop(text, <<>>)

\* The texts splitMessage is called with, and the call on its own
Alphabet == {"a", SP, NL}
SplitTexts == UNION { [1..n -> Alphabet] : n \in 0..MaxLen }
NoSplit == [pc |-> "idle", text |-> <<>>, chunks |-> <<>>]

\* splitMessage(text) returns, bot.ts:11-40
SplitReturns ==
    /\ split.pc = "call"
    /\ split' = [split EXCEPT !.pc = "done", !.chunks = splitMessage(split.text)]
    /\ UNCHANGED <<messageQueue, processing, drains, enqueued, prompted, replies, updates>>
    /\ UNCHANGED <<tasks, disk, now, memFiles, ret, serial, nAdded, mainSession, resets>>
    /\ UNCHANGED <<workerRunning, workerTimeout, timers, ticks, nStarts, wlog, life, stateFile>>

(***************************************************************************)
(* The main agent, queue.ts:536-562.  The session either resolves, having   *)
(* streamed some text (possibly none), or throws.                           *)
(***************************************************************************)
NO_RESPONSE == <<"(", ")">>          \* stands for "(no response)"
ErrorText(msg) == <<"E", ":">> \o msg \* stands for `Error: ${msg}`

SessionTexts == { <<>>, <<"a">>, <<"a", "a", "a", SP, "a", "a">> }
ErrorMsgs    == { <<"x">> }
SessionOutcomes ==
    [ok : {TRUE}, text : SessionTexts] \cup [ok : {FALSE}, text : ErrorMsgs]

\* A prompt that returns responseText as it is: the fault that C29 excludes
AgentPromptNoSentinel(outcome) ==
    IF outcome.ok THEN outcome.text ELSE ErrorText(outcome.text)
\* What agent.prompt resolves to for an outcome of mainSession.prompt
AgentPrompt(outcome) ==
    LET responseText == IF outcome.ok THEN outcome.text ELSE ErrorText(outcome.text)
    IN  IF responseText = <<>> THEN NO_RESPONSE ELSE responseText

\* An agent.prompt call awaiting mainSession.prompt (queue.ts:539-552): its
\* listener is subscribed
AgentPromptPending == [settled |-> "pending", subscribed |-> TRUE]
\* The call once mainSession.prompt has settled with the outcome (queue.ts:
\* 551-561): the catch or not, the finally, and the value returned
AgentPromptSettled(outcome) ==
    [settled |-> "resolved", subscribed |-> FALSE, outcome |-> outcome,
     text |-> AgentPrompt(outcome)]

\* The session createAgent makes, queue.ts:495
FirstSession == [id |-> 0, disposed |-> FALSE]


\* agent.reset() up to its await (queue.ts:564-568): the session is disposed
\* and createAgentSession is called; the variable still refers to the old
\* session
AgentResetCalled ==
    /\ mainSession' = [mainSession EXCEPT !.disposed = TRUE]
    /\ resets' = resets + 1

(***************************************************************************)
(* Interactive dispatcher, bot.ts:42-106.                                   *)
(***************************************************************************)
ConfigChatId == 1
Texts == {"m1", "m2"}

\* A drainQueue without its guard: the fault that C1 excludes
DrainQueueEntersNoGuard(flag) == TRUE
\* drainQueue's guard, bot.ts:89: the call goes on only when not processing
DrainQueueEnters(flag) == ~flag

\* messageQueue.pop() in the place of shift(): the fault that C2 excludes
ShiftLast(q) == [item |-> q[Len(q)], rest |-> SubSeq(q, 1, Len(q) - 1)]
\* messageQueue.shift(), bot.ts:93: the item taken and the queue left
Shift(q) == [item |-> Head(q), rest |-> Tail(q)]

\* processMessage up to its first await (bot.ts:57-70): the typing interval is
\* set and agent.prompt(text) is called, which subscribes to and prompts the
\* session mainSession refers to (queue.ts:539, 552); sent and rejected count
\* the sendMessage calls of this invocation that have resolved and rejected
StartProcessMessage(item) ==
    [pc |-> "prompt", item |-> item, chunks |-> <<>>, typing |-> TRUE,
     sent |-> 0, rejected |-> 0, agent |-> AgentPromptPending,
     on |-> mainSession.id]

\* What the invocation d leaves when it returns after one more send has
\* settled: the counts of its sends and whether its typing interval is still set
Tally(d, ok) ==
    [sent |-> d.sent + (IF ok THEN 1 ELSE 0),
     rejected |-> d.rejected + (IF ok THEN 0 ELSE 1),
     typing |-> d.typing]

RemoveAt(s, i) == SubSeq(s, 1, i - 1) \o SubSeq(s, i + 1, Len(s))

\* A drainQueue that forgets to clear the flag: the fault that C3 excludes
FlagAfterDrainStuck == TRUE
\* The flag drainQueue leaves when its loop ends, bot.ts:97
FlagAfterDrain == FALSE

\* The drain loop from the top of its while (bot.ts:92-97), run by the
\* invocation at index i of ds: either the next item is shifted and its
\* processMessage runs to the await of agent.prompt, or the loop ends.
DrainLoop(ds, i, q, flag, hist) ==
    IF Len(q) > 0
    THEN LET sh == Shift(q)
         IN  [drains |-> [ds EXCEPT ![i] = StartProcessMessage(sh.item)],
              queue |-> sh.rest, processing |-> flag,
              prompted |-> Append(hist, sh.item.text)]
    ELSE [drains |-> RemoveAt(ds, i), queue |-> q,
          processing |-> FlagAfterDrain, prompted |-> hist]

\* enqueue(chatId, text), bot.ts:100-106, with the drainQueue() it calls
EnqueueCall(chatId, text) ==
    /\ Len(enqueued) < MaxMsgs
    /\ enqueued' = Append(enqueued, text)
    /\ LET q == Append(messageQueue, [chatId |-> chatId, text |-> text])
       IN  IF DrainQueueEnters(processing)
           THEN LET placeholder == StartProcessMessage(Head(q))
                    r == DrainLoop(Append(drains, placeholder), Len(drains) + 1,
                                   q, TRUE, prompted)
                IN  /\ drains' = r.drains
                    /\ messageQueue' = r.queue
                    /\ processing' = r.processing
                    /\ prompted' = r.prompted
           ELSE /\ messageQueue' = q
                /\ UNCHANGED <<processing, drains, prompted>>
    /\ UNCHANGED replies

\* The text handler calling enqueue for a message of the authorized chat
\* (bot.ts:142-146)
Enqueue(text) ==
    /\ EnqueueCall(ConfigChatId, text)
    /\ UNCHANGED <<updates, mainSession, resets, split, storeVars, workerVars>>

(***************************************************************************)
(* Inbound updates, bot.ts:47-55 and 108-146.  An update comes from a chat  *)
(* (NoChat: ctx.chat is undefined) and is a text, a text starting with "/"  *)
(* that is no command, or one of the commands.                              *)
(***************************************************************************)
NoChat == 0
OtherChatId == 2
ChatIds == {NoChat, ConfigChatId, OtherChatId}
UpdateKinds == {"text", "slash", "start", "reset"}

\* A middleware that lets every update through: the fault that C19 excludes
AuthGuardPassesAll(chatId) == TRUE
\* The auth guard, bot.ts:48-55: next() is called only for the configured chat
AuthGuardPasses(chatId) == chatId = ConfigChatId

\* What the handler of an update of this kind calls, in order (bot.ts:109-116,
\* 142-146)
HandlerCalls(kind) ==
    CASE kind = "text"  -> <<"enqueue">>
      [] kind = "slash" -> <<>>
      [] kind = "start" -> <<"ctx.reply">>
      [] kind = "reset" -> <<"agent.reset", "ctx.reply">>

\* An update arrives: the middleware, then the handler if next() was called
OnUpdate(chatId, kind, text) ==
    /\ Len(updates) < MaxUpdates
    /\ IF AuthGuardPasses(chatId) /\ kind = "reset"
       THEN AgentResetCalled
       ELSE UNCHANGED <<mainSession, resets>>
    /\ IF AuthGuardPasses(chatId)
       THEN /\ updates' = Append(updates, [chat |-> chatId, kind |-> kind, passed |-> TRUE,
                                           calls |-> HandlerCalls(kind)])
            /\ IF kind = "text"
               THEN EnqueueCall(chatId, text)
               ELSE UNCHANGED <<messageQueue, processing, drains, enqueued, prompted,
                                replies>>
       ELSE /\ updates' = Append(updates, [chat |-> chatId, kind |-> kind, passed |-> FALSE,
                                           calls |-> <<>>])
            /\ UNCHANGED <<messageQueue, processing, drains, enqueued, prompted, replies>>
    /\ UNCHANGED <<split, storeVars, workerVars>>

\* createAgentSession settles for a reset() call (queue.ts:568-580): when it
\* resolves the variable is assigned the new session and the handler replies
\* (bot.ts:115); when it rejects the variable keeps the disposed session
AgentResetSettles(ok) ==
    /\ resets > 0
    /\ resets' = resets - 1
    /\ mainSession' = IF ok THEN [id |-> mainSession.id + 1, disposed |-> FALSE]
                            ELSE mainSession
    /\ UNCHANGED <<messageQueue, processing, drains, enqueued, prompted, replies, updates>>
    /\ UNCHANGED <<split, storeVars, workerVars>>

\* A drainQueue with an if in the place of its while: it ends after one
\* message. The fault that C38 excludes
ProcessMessageReturnsEndsLoop(i, n) ==
    /\ replies' = Append(replies, n)
    /\ drains' = RemoveAt(drains, i)
    /\ processing' = FlagAfterDrain
    /\ UNCHANGED <<messageQueue, prompted>>
\* processMessage returns (bot.ts:86), its sends counted in n, and the drain
\* loop that awaited it goes on
ProcessMessageReturns(i, n) ==
    LET r == DrainLoop(drains, i, messageQueue, processing, prompted)
    IN  /\ replies' = Append(replies, n)
        /\ drains' = r.drains
        /\ messageQueue' = r.queue
        /\ processing' = r.processing
        /\ prompted' = r.prompted

\* A try block without its clearInterval: the fault that C26 excludes
PromptSettlesKeepsInterval(i, outcome) ==
    /\ i \in 1..Len(drains)
    /\ drains[i].pc = "prompt"
    /\ drains' = [drains EXCEPT ![i] =
                    [@ EXCEPT !.pc = "send", !.agent = AgentPromptSettled(outcome),
                              !.chunks = splitMessage(AgentPromptSettled(outcome).text)]]
    /\ UNCHANGED <<messageQueue, processing, enqueued, prompted, replies>>
    /\ UNCHANGED <<updates, mainSession, resets, split, storeVars, workerVars>>
\* agent.prompt settles (bot.ts:70-75): the interval is cleared, the response
\* is split and the first chunk is sent
PromptSettles(i, outcome) ==
    /\ i \in 1..Len(drains)
    /\ drains[i].pc = "prompt"
    /\ drains' = [drains EXCEPT ![i] =
                    [@ EXCEPT !.pc = "send", !.typing = FALSE,
                              !.agent = AgentPromptSettled(outcome),
                              !.chunks = splitMessage(AgentPromptSettled(outcome).text)]]
    /\ UNCHANGED <<messageQueue, processing, enqueued, prompted, replies>>
    /\ UNCHANGED <<updates, mainSession, resets, split, storeVars, workerVars>>

\* bot.telegram.sendMessage(chatId, chunk) resolves (bot.ts:74-79): the next
\* chunk is sent, or processMessage returns
SendResolves(i) ==
    /\ i \in 1..Len(drains)
    /\ drains[i].pc = "send"
    /\ IF Len(drains[i].chunks) > 1
       THEN /\ drains' = [drains EXCEPT ![i].chunks = Tail(@), ![i].sent = @ + 1]
            /\ UNCHANGED <<messageQueue, processing, prompted, replies>>
       ELSE ProcessMessageReturns(i, Tally(drains[i], TRUE))
    /\ UNCHANGED enqueued
    /\ UNCHANGED <<updates, mainSession, resets, split, storeVars, workerVars>>

\* A catch that sends nothing and returns: the fault that C17 excludes
SendRejectsGivesUp(i) ==
    /\ i \in 1..Len(drains)
    /\ drains[i].pc = "send"
    /\ ProcessMessageReturns(i, Tally(drains[i], FALSE))
    /\ UNCHANGED enqueued
    /\ UNCHANGED <<updates, mainSession, resets, split, storeVars, workerVars>>
\* bot.telegram.sendMessage(chatId, chunk) rejects (bot.ts:80-84): the error
\* message is sent instead
SendRejects(i) ==
    /\ i \in 1..Len(drains)
    /\ drains[i].pc = "send"
    /\ drains' = [drains EXCEPT ![i] =
                    [@ EXCEPT !.pc = "errsend", !.typing = FALSE, !.chunks = <<>>,
                              !.rejected = @ + 1]]
    /\ UNCHANGED <<messageQueue, processing, enqueued, prompted, replies>>
    /\ UNCHANGED <<updates, mainSession, resets, split, storeVars, workerVars>>

\* An error send without its .catch: its rejection leaves processMessage and
\* drainQueue rejected, the flag still set. The fault that C35 excludes
ErrorSendSettlesThrows(i, ok) ==
    /\ i \in 1..Len(drains)
    /\ drains[i].pc = "errsend"
    /\ IF ok
       THEN ProcessMessageReturns(i, Tally(drains[i], ok))
       ELSE /\ drains' = RemoveAt(drains, i)
            /\ UNCHANGED <<messageQueue, processing, prompted, replies>>
    /\ UNCHANGED enqueued
    /\ UNCHANGED <<updates, mainSession, resets, split, storeVars, workerVars>>
\* The send of the error message settles: it resolves (ok) or it rejects and
\* the rejection is dropped (bot.ts:84, .catch(() => {}))
ErrorSendSettles(i, ok) ==
    /\ i \in 1..Len(drains)
    /\ drains[i].pc = "errsend"
    /\ ProcessMessageReturns(i, Tally(drains[i], ok))
    /\ UNCHANGED enqueued
    /\ UNCHANGED <<updates, mainSession, resets, split, storeVars, workerVars>>


(***************************************************************************)
(* Durable task store, queue.ts:5-112.  A Task is a record whose optional   *)
(* properties (completedAt, result, error) are in its domain once assigned. *)
(* serial runs parallel to tasks and numbers them by insertion; it is       *)
(* history only, no operation of the store reads it.                        *)
(***************************************************************************)
\* The data directory as the set of the contents of queue.json in it: empty
\* when the file does not exist (existsSync, queue.ts:25)
NoFile  == {}
NoTask  == 0

Has(t, k) == k \in DOMAIN t
Put(t, k, v) == [x \in DOMAIN t \cup {k} |-> IF x = k THEN v ELSE t[x]]

\* Math.random().toString(36).slice(2, 6): the suffixes the model draws from
RandSuffix == {"p", "q"}
Times == 0..MaxTime
\* Date.now().toString(36) + suffix, queue.ts:42
MakeId(t, r) == <<t, r>>
Ids == Times \X RandSuffix
Descriptions == {"d1"}
Results == {"r"}

\* JSON.stringify(this.tasks, null, 2), queue.ts:37: each task becomes the list
\* of its own properties, name and value, the undefined ones left out
\* A save that leaves the result out of the file: the fault that C12 excludes
FieldOrderNoResult == <<"id", "description", "status", "createdAt", "completedAt", "error">>
FieldOrder == <<"id", "description", "status", "createdAt", "completedAt", "result", "error">>
RECURSIVE StringifyFields(_, _)
StringifyFields(t, k) ==
    IF k > Len(FieldOrder) THEN <<>>
    ELSE (IF Has(t, FieldOrder[k]) THEN << <<FieldOrder[k], t[FieldOrder[k]]>> >> ELSE <<>>)
         \o StringifyFields(t, k + 1)
Stringify(ts) == [i \in 1..Len(ts) |-> StringifyFields(ts[i], 1)]

\* JSON.parse, queue.ts:27
ParseObject(o) ==
    [k \in {o[j][1] : j \in 1..Len(o)} |->
        LET j == CHOOSE j \in 1..Len(o) : o[j][1] = k IN o[j][2]]
Parse(text) == [i \in 1..Len(text) |-> ParseObject(text[i])]

\* Array.prototype.find over the task list, as an index (0: undefined)
RECURSIVE FindPendingFrom(_, _)
FindPendingFrom(ts, i) ==
    IF i > Len(ts) THEN NoTask
    ELSE IF ts[i].status = "pending" THEN i
    ELSE FindPendingFrom(ts, i + 1)

RECURSIVE FindIdFrom(_, _, _)
FindIdFrom(ts, id, i) ==
    IF i > Len(ts) THEN NoTask
    ELSE IF ts[i].id = id THEN i
    ELSE FindIdFrom(ts, id, i + 1)

\* next(), queue.ts:54-56: the index of the task returned
NextTask(ts) == FindPendingFrom(ts, 1)

\* add(description), queue.ts:40-51: the list after the push
AddTask(ts, id, description, t) ==
    Append(ts, [id |-> id, description |-> description,
                status |-> "pending", createdAt |-> t])

\* A markRunning that marks every task with the id (filter in the place of
\* find): the fault that C31 excludes
MarkRunningEvery(ts, id) ==
    [i \in 1..Len(ts) |-> IF ts[i].id = id THEN [ts[i] EXCEPT !.status = "running"]
                          ELSE ts[i]]
\* markRunning(id), queue.ts:58-64
MarkRunning(ts, id) ==
    LET i == FindIdFrom(ts, id, 1)
    IN  IF i = NoTask THEN ts ELSE [ts EXCEPT ![i].status = "running"]

\* complete(id, result), queue.ts:66-75
Complete(ts, id, result, t) ==
    LET i == FindIdFrom(ts, id, 1)
    IN  IF i = NoTask THEN ts
        ELSE [ts EXCEPT ![i] =
                Put(Put([@ EXCEPT !.status = "done"], "result", result), "completedAt", t)]

\* fail(id, error), queue.ts:77-86
Fail(ts, id, error, t) ==
    LET i == FindIdFrom(ts, id, 1)
    IN  IF i = NoTask THEN ts
        ELSE [ts EXCEPT ![i] =
                Put(Put([@ EXCEPT !.status = "failed"], "error", error), "completedAt", t)]

\* list(status?), queue.ts:89-92: the indexes of the tasks returned, in order
RECURSIVE FilterIdx(_, _, _)
FilterIdx(ts, status, i) ==
    IF i > Len(ts) THEN <<>>
    ELSE (IF status = "all" \/ ts[i].status = status THEN <<i>> ELSE <<>>)
         \o FilterIdx(ts, status, i + 1)
List(ts, status) == FilterIdx(ts, status, 1)

\* prune's filter, queue.ts:98-104: the task is kept
PruneKeeps(t, cutoff) ==
    \/ t.status = "pending"
    \/ t.status = "running"
    \/ ~Has(t, "completedAt")
    \/ t.completedAt > cutoff

RECURSIVE KeptIdx(_, _, _)
KeptIdx(ts, cutoff, i) ==
    IF i > Len(ts) THEN <<>>
    ELSE (IF PruneKeeps(ts[i], cutoff) THEN <<i>> ELSE <<>>) \o KeptIdx(ts, cutoff, i + 1)

\* prune(maxAgeMs), queue.ts:95-111: the indexes kept, in order
PruneKept(ts, maxAgeMs, t) == KeptIdx(ts, t - maxAgeMs, 1)

Pick(s, idx) == [j \in 1..Len(idx) |-> s[idx[j]]]

\* 7 * 24 * 60 * 60 * 1000 ms (queue.ts:95), in ticks of the model's clock
DEFAULT_MAX_AGE == 1

SerialOf(i) == IF i = NoTask THEN 0 ELSE serial[i]

(***************************************************************************)
(* The TaskQueue API called directly, with any id (queue.ts:40-111).  Every *)
(* mutating call ends with save(), queue.ts:34-38.                          *)
(***************************************************************************)
NoRet == [op |-> "none"]
Save(ts) == {[text |-> Stringify(ts), complete |-> TRUE]}

\* queue.add(description); the queue_task tool calls it, queue.ts:372-379
Add(description, r) ==
    /\ nAdded < MaxTasks
    /\ tasks' = AddTask(tasks, MakeId(now, r), description, now)
    /\ disk' = Save(tasks')
    /\ serial' = Append(serial, nAdded + 1)
    /\ nAdded' = nAdded + 1
    /\ ret' = [op |-> "add", idx |-> Len(tasks')]
    /\ UNCHANGED <<now, memFiles, botVars, workerVars>>

\* A next() that takes the task it returns (marks it running and saves): the
\* fault that C6 excludes
CallNextMarks ==
    /\ ret' = [op |-> "next", idx |-> NextTask(tasks)]
    /\ tasks' = IF NextTask(tasks) = NoTask THEN tasks
                ELSE [tasks EXCEPT ![NextTask(tasks)].status = "running"]
    /\ disk' = Save(tasks')
    /\ UNCHANGED <<now, memFiles, serial, nAdded, botVars, workerVars>>
\* next(), queue.ts:54-56, called through the API
CallNext ==
    /\ ret' = [op |-> "next", idx |-> NextTask(tasks)]
    /\ UNCHANGED <<tasks, disk, now, memFiles, serial, nAdded, botVars, workerVars>>

\* list(status?), queue.ts:89-92
CallList(status) ==
    /\ ret' = [op |-> "list", status |-> status, idx |-> List(tasks, status)]
    /\ UNCHANGED <<tasks, disk, now, memFiles, serial, nAdded, botVars, workerVars>>

\* markRunning(id), queue.ts:58-64
CallMarkRunning(id) ==
    /\ tasks' = MarkRunning(tasks, id)
    /\ disk' = IF FindIdFrom(tasks, id, 1) = NoTask THEN disk ELSE Save(tasks')
    /\ ret' = [op |-> "markRunning", id |-> id]
    /\ UNCHANGED <<now, memFiles, serial, nAdded, botVars, workerVars>>

\* complete(id, result), queue.ts:66-75
CallComplete(id, result) ==
    /\ tasks' = Complete(tasks, id, result, now)
    /\ disk' = IF FindIdFrom(tasks, id, 1) = NoTask THEN disk ELSE Save(tasks')
    /\ ret' = [op |-> "complete", id |-> id]
    /\ UNCHANGED <<now, memFiles, serial, nAdded, botVars, workerVars>>

\* fail(id, error), queue.ts:77-86
CallFail(id, error) ==
    /\ tasks' = Fail(tasks, id, error, now)
    /\ disk' = IF FindIdFrom(tasks, id, 1) = NoTask THEN disk ELSE Save(tasks')
    /\ ret' = [op |-> "fail", id |-> id]
    /\ UNCHANGED <<now, memFiles, serial, nAdded, botVars, workerVars>>

\* prune(maxAgeMs), queue.ts:95-111
CallPrune(maxAgeMs) ==
    LET kept == PruneKept(tasks, maxAgeMs, now)
        pruned == Len(tasks) - Len(kept)
    IN  /\ tasks' = Pick(tasks, kept)
        /\ serial' = Pick(serial, kept)
        /\ disk' = IF pruned > 0 THEN Save(tasks') ELSE disk
        /\ ret' = [op |-> "prune", maxAge |-> maxAgeMs, count |-> pruned]
        /\ UNCHANGED <<now, memFiles, nAdded, botVars, workerVars>>

\* JSON.parse of the text of a file, queue.ts:27: it throws on a text that is
\* cut short
JsonParse(file) ==
    IF file.complete THEN [threw |-> FALSE, value |-> Parse(file.text)]
    ELSE [threw |-> TRUE, value |-> <<>>]

\* A file that load() cannot use: none, one that readFileSync cannot read, one
\* that JSON.parse rejects
BadFile(dk, readable) ==
    dk = NoFile \/ ~readable \/ JsonParse(CHOOSE file \in dk : TRUE).threw

\* A load that keeps the tasks it finds in a file that is cut short: the
\* fault that C30 excludes
LoadSalvaging(dk, readable) ==
    IF dk = NoFile THEN <<>> ELSE Parse((CHOOSE file \in dk : TRUE).text)
\* load(), queue.ts:24-32: no file, no tasks; readFileSync or JSON.parse
\* throwing, no tasks
LoadFrom(dk, readable) ==
    IF dk = NoFile THEN <<>>
    ELSE IF ~readable THEN <<>>
    ELSE LET r == JsonParse(CHOOSE file \in dk : TRUE)
         IN  IF r.threw THEN <<>> ELSE r.value
\* load() of a file that can be read
Load(dk) == LoadFrom(dk, TRUE)

\* The process dies between two calls and a new TaskQueue is constructed on
\* the same data directory (queue.ts:19-22): what was in memory is gone, the
\* list is read from the file (a list that differs from the one in memory is
\* numbered anew, in its order)
NewTaskQueueOn(readable) ==
    /\ tasks' = LoadFrom(disk, readable)
    /\ serial' = IF tasks' = tasks THEN serial
                 ELSE [i \in 1..Len(tasks') |-> i]
    /\ ret' = [op |-> "load", before |-> tasks, bad |-> BadFile(disk, readable)]
    /\ UNCHANGED <<disk, now, memFiles, nAdded, botVars, workerVars>>
NewTaskQueue == NewTaskQueueOn(TRUE)

\* The file is cut short after k of its tasks, as a writeFileSync interrupted
\* by the end of the process leaves it (queue.ts:37)
CutShort(k) ==
    /\ disk # NoFile
    /\ LET file == CHOOSE f \in disk : TRUE
       IN  /\ file.complete
           /\ k \in 0..Len(file.text)
           /\ disk' = {[text |-> SubSeq(file.text, 1, k), complete |-> FALSE]}
    /\ UNCHANGED <<tasks, now, memFiles, ret, serial, nAdded, botVars, workerVars>>

\* Time passes
ClockTick ==
    /\ now < MaxTime
    /\ now' = now + 1
    /\ UNCHANGED <<tasks, disk, memFiles, ret, serial, nAdded, botVars, workerVars>>

(***************************************************************************)
(* Weekly memory files, queue.ts:118-175.  A file is the list of its lines: *)
(* the header written when the file is created, then one line per entry.    *)
(* One unit of the clock is one week.                                       *)
(***************************************************************************)
MaxEntries == 2
WeekIds == 0..MaxTime
NoWeekId == -1
NoEntry == ""
Entries == {"e1", "e2"}
NoWeekFile == [exists |-> FALSE, content |-> <<>>]
NoMemory == [w \in WeekIds |-> NoWeekFile]
\* getCurrentWeekId(), queue.ts:130-136
WeekIdOf(t) == t
WeekExists(files, w) == w \in DOMAIN files /\ files[w].exists

\* The file system call that throws during an operation: none, its first or
\* its second; and the message of the error thrown
FsFaults == 0..2
FsError == "EIO"

\* loadWeek(weekId?), queue.ts:143-148: "" when the file does not exist
LoadWeek(files, weekId, t, fault) ==
    LET id == IF weekId = NoWeekId THEN WeekIdOf(t) ELSE weekId
    IN  IF ~WeekExists(files, id) THEN [threw |-> FALSE, content |-> <<>>]
        ELSE IF fault = 1 THEN [threw |-> TRUE, content |-> <<>>]
        ELSE [threw |-> FALSE, content |-> files[id].content]

\* An append that writes the file anew, header and entry: the fault that C32
\* excludes
AppendEntryRewrites(files, entry, t, fault) ==
    [threw |-> FALSE,
     files |-> [files EXCEPT ![WeekIdOf(t)] =
                  [exists |-> TRUE,
                   content |-> << [line |-> "header", week |-> WeekIdOf(t)],
                                  [line |-> "entry", at |-> t, entry |-> entry] >>]]]
\* append(entry), queue.ts:151-163: the header if the file is new, then the
\* entry line with its timestamp
AppendEntry(files, entry, t, fault) ==
    LET w      == WeekIdOf(t)
        header == [line |-> "header", week |-> w]
        item   == [line |-> "entry", at |-> t, entry |-> entry]
        made   == [files EXCEPT ![w] = [exists |-> TRUE, content |-> <<header>>]]
    IN  IF ~WeekExists(files, w)
        THEN CASE fault = 1 -> [threw |-> TRUE, files |-> files]
               [] fault = 2 -> [threw |-> TRUE, files |-> made]
               [] OTHER     -> [threw |-> FALSE,
                                files |-> [made EXCEPT ![w].content = Append(@, item)]]
        ELSE IF fault = 1 THEN [threw |-> TRUE, files |-> files]
             ELSE [threw |-> FALSE, files |-> [files EXCEPT ![w].content = Append(@, item)]]

\* The numbers of S in descending order (.sort().reverse(), queue.ts:171-172)
RECURSIVE SortDescending(_)
SortDescending(S) ==
    IF S = {} THEN <<>>
    ELSE LET m == CHOOSE x \in S : \A y \in S : y <= x
         IN  <<m>> \o SortDescending(S \ {m})

\* listWeeks(), queue.ts:166-174
ListWeeks(files, fault) ==
    IF fault = 1 THEN [threw |-> TRUE, weeks |-> <<>>]
    ELSE [threw |-> FALSE,
          weeks |-> SortDescending({ w \in DOMAIN files : files[w].exists })]

(***************************************************************************)
(* The tools given to the agent, queue.ts:308-381.  A text is the list of   *)
(* its parts; the result of execute is the value its promise settles with.  *)
(***************************************************************************)
TextResult(text) == [settled |-> "resolved", text |-> text, isError |-> FALSE]
\* The catch of the memory tool, queue.ts:354-358
ErrorResult(msg) == [settled |-> "resolved", text |-> <<"Error: ", msg>>, isError |-> TRUE]
\* An exception that leaves execute: its promise rejects
Rejected(msg) == [settled |-> "rejected", error |-> msg]

MemoryActions == {"read_current", "read_week", "append", "list", "forget"}

\* execute of the memory tool, queue.ts:315-359: its result and the files
\* it leaves
MemoryTool(files, action, weekId, entry, t, fault) ==
    CASE action = "read_current" ->
           LET r == LoadWeek(files, NoWeekId, t, fault)
           IN  [files |-> files,
                result |-> IF r.threw THEN ErrorResult(FsError)
                           ELSE IF r.content = <<>>
                           THEN TextResult(<<"No memory for ", WeekIdOf(t), " yet.">>)
                           ELSE TextResult(r.content)]
      [] action = "read_week" ->
           IF weekId = NoWeekId
           THEN [files |-> files, result |-> TextResult(<<"Missing weekId parameter.">>)]
           ELSE LET r == LoadWeek(files, weekId, t, fault)
                IN  [files |-> files,
                     result |-> IF r.threw THEN ErrorResult(FsError)
                                ELSE IF r.content = <<>>
                                THEN TextResult(<<"No memory for ", weekId, ".">>)
                                ELSE TextResult(r.content)]
      [] action = "append" ->
           IF entry = NoEntry
           THEN [files |-> files, result |-> TextResult(<<"Missing entry parameter.">>)]
           ELSE LET r == AppendEntry(files, entry, t, fault)
                IN  [files |-> r.files,
                     result |-> IF r.threw THEN ErrorResult(FsError)
                                ELSE TextResult(<<"Saved to memory.">>)]
      [] action = "list" ->
           LET r == ListWeeks(files, fault)
           IN  [files |-> files,
                result |-> IF r.threw THEN ErrorResult(FsError)
                           ELSE IF Len(r.weeks) > 0 THEN TextResult(r.weeks)
                           ELSE TextResult(<<"No memory files yet.">>)]
      [] OTHER ->
           [files |-> files, result |-> TextResult(<<"Unknown action: ", action>>)]

\* The agent calls the memory tool; ret keeps the parameters the action reads
MemoryToolExecute(action, weekId, entry, fault) ==
    /\ (action = "append" /\ entry # NoEntry) =>
           Len(memFiles[WeekIdOf(now)].content) <= MaxEntries
    /\ LET r == MemoryTool(memFiles, action, weekId, entry, now, fault)
       IN  /\ memFiles' = r.files
           /\ ret' = [op |-> "memory", action |-> action,
                      weekId |-> IF action = "read_week" THEN weekId ELSE NoWeekId,
                      entry |-> IF action = "append" THEN entry ELSE NoEntry,
                      result |-> r.result]
    /\ UNCHANGED <<tasks, disk, now, serial, nAdded, botVars, workerVars>>

ToolCallIds == {"call1", "call2"}

\* The agent calls the queue_task tool, queue.ts:371-378: queue.add pushes the
\* task and saves (queue.ts:40-51); when writeFileSync throws (fault = 1) the
\* task stays in the list in memory and the exception leaves execute
QueueToolExecute(callId, description, r, fault) ==
    /\ nAdded < MaxTasks
    /\ tasks' = AddTask(tasks, MakeId(now, r), description, now)
    /\ disk' = IF fault = 1 THEN disk ELSE Save(tasks')
    /\ serial' = Append(serial, nAdded + 1)
    /\ nAdded' = nAdded + 1
    /\ ret' = [op |-> "queue_task", callId |-> callId, description |-> description,
               result |-> IF fault = 1 THEN Rejected(FsError)
                          ELSE TextResult(<<"Task queued (id: ", MakeId(now, r),
                                            "). It will be processed in the background.">>)]
    /\ UNCHANGED <<now, memFiles, botVars, workerVars>>

(***************************************************************************)
(* Background worker, queue.ts:601-681.                                     *)
(***************************************************************************)
NoTimer == 0
Handles == 1..(MaxStarts + 1)
\* setTimeout returns a handle that no pending timer has
NewHandle(tm) == CHOOSE h \in Handles : h \notin tm /\ \A g \in Handles \ tm : h <= g

BgTexts == {"", "r"}
BgErrors == {"e"}
NO_RESPONSE_BG == "(no response)"
TaskFailedText(msg) == <<"Task failed: ", msg>>

\* Room in the history for one more task (four entries); a tick that finds
\* none runs unrecorded
LogHasRoom == Len(wlog) + 4 <= MaxLog
Record(logged, entries) == IF logged THEN wlog \o entries ELSE wlog

\* What tick does with the task next() returned (queue.ts:623): the id it
\* passes to markRunning
IdMarkedRunning(task) == task.id

\* tick(), queue.ts:614-646, entered with the flag `running`, the task list ts
\* (numbered sr) on file as dk, and the pending timers tm: up to the await of
\* bgSession.prompt, or to the return that schedules the next tick
RunTick(running, ts, sr, dk, tm, wt) ==
    IF ~running
    THEN /\ tasks' = ts /\ serial' = sr /\ disk' = dk
         /\ timers' = tm /\ workerTimeout' = wt
         /\ UNCHANGED <<ticks, wlog>>
    ELSE LET k == NextTask(ts)
         IN  IF k = NoTask
             THEN /\ tasks' = ts /\ serial' = sr /\ disk' = dk
                  /\ timers' = tm \cup {NewHandle(tm)}
                  /\ workerTimeout' = NewHandle(tm)
                  /\ UNCHANGED <<ticks, wlog>>
             ELSE LET id == IdMarkedRunning(ts[k])
                      m  == FindIdFrom(ts, id, 1)
                  IN  /\ tasks' = MarkRunning(ts, id)
                      /\ serial' = sr
                      /\ disk' = IF m = NoTask THEN dk ELSE Save(tasks')
                      /\ timers' = tm /\ workerTimeout' = wt
                      /\ ticks' = Append(ticks, [pc |-> "prompt", id |-> ts[k].id,
                                                 n |-> sr[k], logged |-> LogHasRoom])
                      /\ wlog' = Record(LogHasRoom,
                                        << [ev |-> "running", n |-> sr[k],
                                            m |-> IF m = NoTask THEN 0 ELSE sr[m]] >>)

\* worker.start(sendResult), queue.ts:607-670: prune, then the first tick
Start(limit) ==
    /\ nStarts < limit
    /\ nStarts' = nStarts + 1
    /\ life' = "up"
    /\ workerRunning' = TRUE
    /\ LET kept == PruneKept(tasks, DEFAULT_MAX_AGE, now)
           ts   == Pick(tasks, kept)
           dk   == IF Len(kept) < Len(tasks) THEN Save(ts) ELSE disk
       IN  RunTick(TRUE, ts, Pick(serial, kept), dk, timers, workerTimeout)
    /\ ret' = NoRet
    /\ UNCHANGED <<now, memFiles, nAdded, stateFile, botVars>>

\* createBot starts the worker once (PLAN.md:442-445)
StartOnce == Start(1)
\* start() called again through the BackgroundWorker interface
StartAgain == Start(MaxStarts)

\* A stop() that cancels the pending timer and leaves the flag set: the fault
\* that C24 excludes
StopLeavesFlag ==
    /\ life' = "stopped"
    /\ timers' = IF workerTimeout # NoTimer THEN timers \ {workerTimeout} ELSE timers
    /\ workerTimeout' = NoTimer
    /\ ret' = NoRet
    /\ UNCHANGED <<tasks, disk, now, memFiles, serial, nAdded, ticks, nStarts, wlog, botVars,
                   workerRunning, stateFile>>
\* worker.stop(), queue.ts:672-679
Stop ==
    /\ life' = "stopped"
    /\ workerRunning' = FALSE
    /\ timers' = IF workerTimeout # NoTimer THEN timers \ {workerTimeout} ELSE timers
    /\ workerTimeout' = NoTimer
    /\ ret' = NoRet
    /\ UNCHANGED <<tasks, disk, now, memFiles, serial, nAdded, ticks, nStarts, wlog, stateFile,
                   botVars>>

\* The state file before the first clean shutdown, and the signals handled
NoState == "absent"
Signals == {"SIGINT", "SIGTERM"}
\* A state file that JSON.parse rejects
CorruptState == "corrupt"
\* A process is running
Alive == life \in {"up", "stopped"}

\* shutdown(signal), index.ts:71-78: write the state file, stop the worker and
\* the bot, dispose of the agent, process.exit(0). Nothing is awaited: the
\* process ends within the handler, with every pending promise and timer.
\* When writeFileSync throws (written = FALSE) the handler's exception is
\* uncaught and ends the process before worker.stop().
Shutdown(signal, written) ==
    /\ Alive
    /\ life' = "exited"
    /\ stateFile' = IF written THEN signal ELSE stateFile
    /\ workerRunning' = IF written THEN FALSE ELSE workerRunning
    /\ timers' = IF written /\ workerTimeout # NoTimer
                 THEN timers \ {workerTimeout} ELSE timers
    /\ workerTimeout' = IF written THEN NoTimer ELSE workerTimeout
    /\ UNCHANGED <<storeVars, ticks, nStarts, wlog, botVars>>

\* The process ends without its shutdown handler (kill -9, power loss, an
\* uncaught exception): nothing is written
Crash ==
    /\ Alive
    /\ life' = "crashed"
    /\ UNCHANGED <<storeVars, workerRunning, workerTimeout, timers, ticks, nStarts, wlog,
                   stateFile, botVars>>

\* The state file is damaged outside the program
CorruptStateFile ==
    /\ stateFile \in Signals
    /\ stateFile' = CorruptState
    /\ UNCHANGED <<storeVars, workerRunning, workerTimeout, timers, ticks, nStarts, wlog,
                   life, botVars>>

\* restartReason, index.ts:34-44
RestartReason(sf) ==
    IF sf = NoState THEN <<"unknown (possible crash or first start)">>
    ELSE IF sf = CorruptState THEN <<"unknown (corrupt state file)">>
    ELSE <<"clean shutdown (", sf, ")">>

MaxBoots == 2
Boots == Len(SelectSeq(wlog, LAMBDA e : e.ev = "boot"))

\* The program is started again on the same data directory (index.ts:32-58):
\* the restart reason is read from the state file, the store is loaded from
\* its file, nothing of the last process's memory is left, and the startup
\* notification reports the reason and the tasks running and pending. The
\* history records the tasks that the file holds as running.
Boot ==
    /\ ~Alive
    /\ Boots < MaxBoots
    /\ life' = "up"
    /\ tasks' = Load(disk)
    /\ serial' = IF tasks' = tasks THEN serial ELSE [i \in 1..Len(tasks') |-> i]
    /\ messageQueue' = <<>> /\ processing' = FALSE /\ drains' = <<>>
    /\ workerRunning' = FALSE /\ workerTimeout' = NoTimer /\ timers' = {}
    /\ ticks' = <<>> /\ nStarts' = 0
    /\ wlog' = Append(wlog, [ev |-> "boot", n |-> 0, m |-> 0,
                             running |-> { serial'[i] : i \in { j \in 1..Len(tasks') :
                                             tasks'[j].status = "running" } }])
    /\ ret' = [op |-> "boot", after |-> life, found |-> stateFile,
               reason |-> RestartReason(stateFile),
               running |-> Len(List(tasks', "running")),
               pending |-> Len(List(tasks', "pending"))]
    /\ mainSession' = [id |-> mainSession.id + 1, disposed |-> FALSE]
    /\ resets' = 0
    /\ UNCHANGED <<disk, now, memFiles, nAdded, stateFile, enqueued, prompted, replies,
                   updates, split>>

\* A setTimeout(tick, ..) fires
TimerFires(h) ==
    /\ h \in timers
    /\ RunTick(workerRunning, tasks, serial, disk, timers \ {h}, workerTimeout)
    /\ ret' = NoRet
    /\ UNCHANGED <<now, memFiles, nAdded, workerRunning, nStarts, life, stateFile, botVars>>

\* What the worker records when the background prompt resolves (queue.ts:648)
\* and when it rejects (queue.ts:655)
OnResolve(ts, id, text, t) ==
    Complete(ts, id, IF text = "" THEN NO_RESPONSE_BG ELSE text, t)
OnReject(ts, id, msg, t) == Fail(ts, id, msg, t)

\* bgSession.prompt resolves, queue.ts:646-652: complete, then sendResult
BgPromptResolves(i, text) ==
    /\ i \in 1..Len(ticks)
    /\ ticks[i].pc = "prompt"
    /\ LET id == ticks[i].id
           m  == FindIdFrom(tasks, id, 1)
           result == IF text = "" THEN NO_RESPONSE_BG ELSE text
       IN  /\ tasks' = OnResolve(tasks, id, text, now)
           /\ disk' = IF m = NoTask THEN disk ELSE Save(tasks')
           /\ wlog' = Record(ticks[i].logged,
                             << [ev |-> tasks'[IF m = NoTask THEN 1 ELSE m].status,
                                 n |-> ticks[i].n, m |-> SerialOf(m)],
                                [ev |-> "deliver", n |-> ticks[i].n, text |-> result] >>)
    /\ ticks' = [ticks EXCEPT ![i].pc = "send"]
    /\ ret' = NoRet
    /\ UNCHANGED <<now, memFiles, serial, nAdded, workerRunning, workerTimeout, timers, nStarts, life,
                   stateFile, botVars>>

\* bgSession.prompt rejects, queue.ts:653-658: fail, then sendResult
BgPromptRejects(i, msg) ==
    /\ i \in 1..Len(ticks)
    /\ ticks[i].pc = "prompt"
    /\ LET id == ticks[i].id
           m  == FindIdFrom(tasks, id, 1)
       IN  /\ tasks' = OnReject(tasks, id, msg, now)
           /\ disk' = IF m = NoTask THEN disk ELSE Save(tasks')
           /\ wlog' = Record(ticks[i].logged,
                             << [ev |-> tasks'[IF m = NoTask THEN 1 ELSE m].status,
                                 n |-> ticks[i].n, m |-> SerialOf(m)],
                                [ev |-> "deliver", n |-> ticks[i].n,
                                 text |-> TaskFailedText(msg)] >>)
    /\ ticks' = [ticks EXCEPT ![i].pc = "send"]
    /\ ret' = NoRet
    /\ UNCHANGED <<now, memFiles, serial, nAdded, workerRunning, workerTimeout, timers, nStarts, life,
                   stateFile, botVars>>

\* The outcomes of the promise sendResult returns: resolved or rejected
SendOutcomes == {"sent", "lost"}

\* sendResult settles, resolved or rejected; a rejection is caught and at most
\* logged (queue.ts:650-652, 658); then finally and the scheduling of the next
\* tick (queue.ts:659-666)
SendResultSettles(i, outcome) ==
    /\ i \in 1..Len(ticks)
    /\ ticks[i].pc = "send"
    /\ ticks' = RemoveAt(ticks, i)
    /\ wlog' = Record(ticks[i].logged, << [ev |-> outcome, n |-> ticks[i].n] >>)
    /\ IF workerRunning
       THEN /\ timers' = timers \cup {NewHandle(timers)}
            /\ workerTimeout' = NewHandle(timers)
       ELSE UNCHANGED <<timers, workerTimeout>>
    /\ ret' = NoRet
    /\ UNCHANGED <<tasks, disk, now, memFiles, serial, nAdded, workerRunning, nStarts, life,
                   stateFile, botVars>>

(***************************************************************************)
(* Specifications.                                                          *)
(***************************************************************************)
Init ==
    /\ messageQueue = <<>> /\ processing = FALSE /\ drains = <<>>
    /\ enqueued = <<>> /\ prompted = <<>> /\ replies = <<>> /\ updates = <<>>
    /\ split = NoSplit
    /\ tasks = <<>> /\ disk = NoFile /\ now = 0 /\ ret = NoRet /\ memFiles = NoMemory
    /\ serial = <<>> /\ nAdded = 0
    /\ workerRunning = FALSE /\ workerTimeout = NoTimer /\ timers = {}
    /\ ticks = <<>> /\ nStarts = 0 /\ wlog = <<>> /\ life = "up" /\ stateFile = NoState
    /\ mainSession = FirstSession /\ resets = 0

\* splitMessage called with any text
InitSplit ==
    /\ messageQueue = <<>> /\ processing = FALSE /\ drains = <<>>
    /\ enqueued = <<>> /\ prompted = <<>> /\ replies = <<>> /\ updates = <<>>
    /\ split \in [pc : {"call"}, text : SplitTexts, chunks : {<<>>}]
    /\ tasks = <<>> /\ disk = NoFile /\ now = 0 /\ ret = NoRet /\ memFiles = NoMemory
    /\ serial = <<>> /\ nAdded = 0
    /\ workerRunning = FALSE /\ workerTimeout = NoTimer /\ timers = {}
    /\ ticks = <<>> /\ nStarts = 0 /\ wlog = <<>> /\ life = "up" /\ stateFile = NoState
    /\ mainSession = FirstSession /\ resets = 0
NextSplit == SplitReturns
SpecSplit == InitSplit /\ [][NextSplit]_vars

\* The interactive dispatcher
NextBot ==
    \/ \E t \in Texts : Enqueue(t)
    \/ \E i \in 1..MaxMsgs, o \in SessionOutcomes : PromptSettles(i, o)
    \/ \E i \in 1..MaxMsgs : SendResolves(i)
    \/ \E i \in 1..MaxMsgs : SendRejects(i)
    \/ \E i \in 1..MaxMsgs, ok \in BOOLEAN : ErrorSendSettles(i, ok)
SpecBot == Init /\ [][NextBot]_vars

\* The dispatcher behind the transport: updates of any chat and kind
NextGateway ==
    \/ \E c \in ChatIds, k \in UpdateKinds, t \in Texts : OnUpdate(c, k, t)
    \/ \E i \in 1..MaxMsgs, o \in SessionOutcomes : PromptSettles(i, o)
    \/ \E i \in 1..MaxMsgs : SendResolves(i)
    \/ \E i \in 1..MaxMsgs : SendRejects(i)
    \/ \E i \in 1..MaxMsgs, ok \in BOOLEAN : ErrorSendSettles(i, ok)
    \/ \E ok \in BOOLEAN : AgentResetSettles(ok)
SpecGateway == Init /\ [][NextGateway]_vars

\* The task store, called with any arguments
NextStore ==
    \/ \E d \in Descriptions, r \in RandSuffix : Add(d, r)
    \/ CallNext
    \/ \E st \in {"all", "pending", "running", "done", "failed"} : CallList(st)
    \/ \E id \in Ids : CallMarkRunning(id)
    \/ \E id \in Ids, res \in Results : CallComplete(id, res)
    \/ \E id \in Ids, e \in BgErrors : CallFail(id, e)
    \/ \E a \in 0..MaxTime : CallPrune(a)
    \/ NewTaskQueue
    \/ ClockTick
SpecStore == Init /\ [][NextStore]_vars

\* The store over a file that may be cut short or unreadable when loaded
NextLoad ==
    \/ \E d \in Descriptions, r \in RandSuffix : Add(d, r)
    \/ CallNext
    \/ \E id \in Ids : CallMarkRunning(id)
    \/ \E id \in Ids, res \in Results : CallComplete(id, res)
    \/ \E id \in Ids, e \in BgErrors : CallFail(id, e)
    \/ \E a \in 0..MaxTime : CallPrune(a)
    \/ \E k \in 0..MaxTasks : CutShort(k)
    \/ \E readable \in BOOLEAN : NewTaskQueueOn(readable)
    \/ ClockTick
SpecLoad == Init /\ [][NextLoad]_vars

\* The tools as the agent calls them, the file system failing at any call
NextTools ==
    \/ \E a \in MemoryActions, w \in WeekIds \cup {NoWeekId},
          e \in Entries \cup {NoEntry}, f \in FsFaults : MemoryToolExecute(a, w, e, f)
    \/ \E c \in ToolCallIds, d \in Descriptions, r \in RandSuffix, f \in 0..1 :
          QueueToolExecute(c, d, r, f)
    \/ ClockTick
SpecTools == Init /\ [][NextTools]_vars

\* The worker as the program runs it: started once, stopped at any time
NextWorker ==
    \/ \E d \in Descriptions, r \in RandSuffix : Add(d, r)
    \/ StartOnce
    \/ Stop
    \/ \E h \in Handles : TimerFires(h)
    \/ \E i \in 1..MaxStarts, x \in BgTexts : BgPromptResolves(i, x)
    \/ \E i \in 1..MaxStarts, e \in BgErrors : BgPromptRejects(i, e)
    \/ \E i \in 1..MaxStarts, o \in SendOutcomes : SendResultSettles(i, o)
    \/ ClockTick
SpecWorker == Init /\ [][NextWorker]_vars

\* The worker behind its interface: start() and stop() in any order
NextWorkerApi ==
    \/ \E d \in Descriptions, r \in RandSuffix : Add(d, r)
    \/ StartAgain
    \/ Stop
    \/ \E h \in Handles : TimerFires(h)
    \/ \E i \in 1..MaxStarts, x \in BgTexts : BgPromptResolves(i, x)
    \/ \E i \in 1..MaxStarts, e \in BgErrors : BgPromptRejects(i, e)
    \/ \E i \in 1..MaxStarts, o \in SendOutcomes : SendResultSettles(i, o)
    \/ ClockTick
SpecWorkerApi == Init /\ [][NextWorkerApi]_vars

\* The worker started and never stopped, every timer firing and every
\* background prompt and delivery settling in the end
NextWorkerRunning ==
    \/ \E d \in Descriptions, r \in RandSuffix : Add(d, r)
    \/ StartOnce
    \/ \E h \in Handles : TimerFires(h)
    \/ \E i \in 1..MaxStarts, x \in BgTexts : BgPromptResolves(i, x)
    \/ \E i \in 1..MaxStarts, e \in BgErrors : BgPromptRejects(i, e)
    \/ \E i \in 1..MaxStarts, o \in SendOutcomes : SendResultSettles(i, o)
    \/ ClockTick
WorkerProgress ==
    \/ \E h \in Handles : TimerFires(h)
    \/ \E i \in 1..MaxStarts, x \in BgTexts : BgPromptResolves(i, x)
    \/ \E i \in 1..MaxStarts, e \in BgErrors : BgPromptRejects(i, e)
    \/ \E i \in 1..MaxStarts, o \in SendOutcomes : SendResultSettles(i, o)
SpecWorkerFair == Init /\ [][NextWorkerRunning]_vars /\ WF_vars(WorkerProgress)

\* The whole program: dispatcher, store and worker side by side
Next ==
    \/ NextBot
    \/ NextWorker
Spec == Init /\ [][Next]_vars

\* The process from its start to its end: one message and the worker at work
\* until a signal arrives; nothing runs once process.exit has been called
MaxInFlight == 1
NextProcess ==
    \/ Alive /\ NextWorker
    \/ Alive /\ Len(enqueued) < MaxInFlight /\ \E t \in Texts : Enqueue(t)
    \/ Alive /\ \E i \in 1..MaxMsgs, o \in SessionOutcomes : PromptSettles(i, o)
    \/ Alive /\ \E i \in 1..MaxMsgs : SendResolves(i)
    \/ Alive /\ \E i \in 1..MaxMsgs : SendRejects(i)
    \/ Alive /\ \E i \in 1..MaxMsgs, ok \in BOOLEAN : ErrorSendSettles(i, ok)
    \/ \E sig \in Signals, written \in BOOLEAN : Shutdown(sig, written)
SpecProcess == Init /\ [][NextProcess]_vars

\* The program over its runs: the worker at work, the process ending by a
\* signal or a crash, and started again
NextRestart ==
    \/ Alive /\ NextWorker
    \/ \E sig \in Signals, written \in BOOLEAN : Shutdown(sig, written)
    \/ Crash
    \/ CorruptStateFile
    \/ Boot
SpecRestart == Init /\ [][NextRestart]_vars

\* The dispatcher when every agent.prompt and every send eventually settles
SettleBot ==
    \/ \E i \in 1..MaxMsgs, o \in SessionOutcomes : PromptSettles(i, o)
    \/ \E i \in 1..MaxMsgs : SendResolves(i) \/ SendRejects(i)
    \/ \E i \in 1..MaxMsgs, ok \in BOOLEAN : ErrorSendSettles(i, ok)
SpecBotFair == Init /\ [][NextBot]_vars /\ WF_vars(SettleBot)

(***************************************************************************)
(* Properties of the interactive dispatcher.                                *)
(***************************************************************************)
OutstandingPrompts == { i \in 1..Len(drains) : drains[i].pc = "prompt" }
QueuedTexts == [i \in 1..Len(messageQueue) |-> messageQueue[i].text]

\* C1: at most one agent.prompt call issued by processMessage is outstanding
\* in every reachable state, and at most one drain loop is active: a
\* drainQueue called while one is active returns without processing anything.
C1_AtMostOnePromptInFlight ==
    /\ Cardinality(OutstandingPrompts) <= 1
    /\ Len(drains) <= 1
    /\ Len(drains) = 1 => processing

\* C1 witness: enqueue calls arrived while a prompt was outstanding; their
\* messages wait in the queue and only one prompt is in flight.
C1_Witness ==
    /\ Cardinality(OutstandingPrompts) = 1
    /\ Len(messageQueue) = 2

\* C2: the texts passed to agent.prompt, followed by the texts still queued,
\* are exactly the texts passed to enqueue, in order: nothing is skipped,
\* duplicated or reordered, and once the queue is empty the two sequences are
\* the same.
C2_PromptedInArrivalOrder ==
    /\ prompted \o QueuedTexts = enqueued
    /\ Len(prompted) = Len(enqueued) - Len(messageQueue)

\* C2 witness: three messages with different texts were enqueued, the later
\* ones while a prompt was in flight, and all three have been prompted.
C2_Witness ==
    /\ enqueued = <<"m1", "m2", "m1">>
    /\ prompted = enqueued
    /\ processing

\* C3: when every agent.prompt and every send settles, every enqueued message
\* is eventually passed to agent.prompt, and a busy dispatcher eventually
\* returns to processing = false with an empty queue.
C3_EveryMessagePrompted ==
    /\ \A k \in 1..(MaxMsgs + 1) : (Len(enqueued) >= k) ~> (Len(prompted) >= k)
    /\ processing ~> (~processing /\ messageQueue = <<>>)

\* C3 witness: all the messages were enqueued and prompted and the dispatcher
\* is idle again.
C3_Witness ==
    /\ Len(enqueued) = MaxMsgs
    /\ prompted = enqueued
    /\ ~processing /\ messageQueue = <<>> /\ drains = <<>>

(***************************************************************************)
(* Properties of the task store.                                            *)
(***************************************************************************)
AllowedStatusStep(a, b) ==
    \/ a = b
    \/ <<a, b>> \in { <<"pending", "running">>, <<"running", "done">>,
                      <<"running", "failed">> }

\* C4: under any sequence of TaskQueue calls with arbitrary ids, the status of
\* a task changes only pending -> running, running -> done and running ->
\* failed; done and failed are final and running never returns to pending.
C4_StatusStateMachine ==
    [][\A i \in 1..Len(tasks) : \A j \in 1..Len(tasks') :
          serial[i] = serial'[j] => AllowedStatusStep(tasks[i].status, tasks'[j].status)]_vars

\* C5: next() returns the pending task inserted earliest, or none when no task
\* is pending; and after markRunning of the task next() returned, the
\* following next() returns a task added later, so that next()+markRunning
\* repeated yields the tasks in the order they were added.
C5_NextOldestPendingInOrder ==
    /\ [](ret.op = "next" =>
            IF ret.idx = NoTask
            THEN \A i \in 1..Len(tasks) : tasks[i].status # "pending"
            ELSE /\ ret.idx \in 1..Len(tasks)
                 /\ tasks[ret.idx].status = "pending"
                 /\ \A i \in 1..(ret.idx - 1) : tasks[i].status # "pending")
    /\ [][(/\ ret.op = "next" /\ ret.idx # NoTask
           /\ ret'.op = "markRunning" /\ ret'.id = tasks[ret.idx].id)
          => (/\ tasks'[ret.idx].status = "running"
              /\ NextTask(tasks') = NoTask \/ NextTask(tasks') > ret.idx)]_vars

\* C6: next() and list() leave the task list and the backing file as they were.
C6_NextAndListReadOnly ==
    [][ret'.op \in {"next", "list"} => UNCHANGED <<tasks, disk>>]_vars

\* C6 witness: next() has skipped a task that is not pending and returned the
\* second one, with the list already on file.
C6_Witness ==
    /\ ret.op = "next" /\ ret.idx = 2
    /\ tasks[1].status = "done"
    /\ disk = Save(tasks)

(***************************************************************************)
(* Properties of the background worker.  An entry of wlog names the task    *)
(* next() returned (n) and, for a status change, the task whose status the  *)
(* store changed (m, 0 when none); both are insertion numbers.              *)
(***************************************************************************)
ExecutingTicks == { i \in 1..Len(ticks) : ticks[i].pc = "prompt" }
IsStatusEntry(e) == e.ev \in {"running", "done", "failed"}
EntriesOf(n) == SelectSeq(wlog, LAMBDA e : e.n = n)
StatusOfSerial(n) ==
    LET S == { i \in 1..Len(tasks) : serial[i] = n }
    IN  IF S = {} THEN "pruned" ELSE tasks[CHOOSE i \in S : TRUE].status

\* C7: the worker marks tasks running in strict creation order; it starts no
\* task while another is executing, and none before an older pending task.
C7_StartedInCreationOrder ==
    [][(Len(wlog') = Len(wlog) + 1 /\ wlog'[Len(wlog')].ev = "running") =>
        LET e == wlog'[Len(wlog')]
        IN  /\ e.m = e.n
            /\ \A k \in 1..Len(wlog) : wlog[k].ev = "running" => wlog[k].m < e.m
            /\ ExecutingTicks = {}
            /\ \A i \in 1..Len(tasks) :
                  tasks[i].status \in {"pending", "running"} => serial[i] >= e.m]_vars

\* C8: at most one bgSession.prompt issued by the worker is outstanding, for
\* every interleaving of add, ticks, completions, start() and stop().
C8_AtMostOneTaskExecuting ==
    Cardinality(ExecutingTicks) <= 1

\* C9: every task the worker picks is first marked running and then reaches
\* exactly one of done and failed, also when stop() is called meanwhile.
C9_RunningThenDoneXorFailed ==
    /\ \A k \in 1..Len(wlog) : IsStatusEntry(wlog[k]) => wlog[k].m = wlog[k].n
    /\ \A i \in ExecutingTicks : StatusOfSerial(ticks[i].n) = "running"
    /\ \A n \in 1..nAdded :
          LET evs == SelectSeq(EntriesOf(n), IsStatusEntry)
          IN  /\ Len(evs) <= 2
              /\ Len(evs) >= 1 => evs[1].ev = "running"
              /\ Len(evs) = 2 => /\ evs[2].ev \in {"done", "failed"}
                                 /\ StatusOfSerial(n) \in {evs[2].ev, "pruned"}

\* C10: sendResult is invoked exactly once for each task the worker processes,
\* after the task's done or failed status has been recorded, and never for a
\* task that was not processed.
C10_DeliveredExactlyOnce ==
    /\ \A n \in 1..nAdded :
          Len(SelectSeq(EntriesOf(n), LAMBDA e : e.ev = "deliver")) <= 1
    /\ \A k \in 1..Len(wlog) :
          /\ wlog[k].ev = "deliver" =>
                /\ k > 1
                /\ wlog[k - 1].ev \in {"done", "failed"}
                /\ wlog[k - 1].m = wlog[k].n
                /\ \E j \in 1..(k - 1) : wlog[j].ev = "running" /\ wlog[j].m = wlog[k].n
          /\ wlog[k].ev \in {"done", "failed"} =>
                k < Len(wlog) /\ wlog[k + 1].ev = "deliver" /\ wlog[k + 1].n = wlog[k].n

\* Every task in the store has an id of its own
UniqueIds == \A i, j \in 1..Len(tasks) : i # j => tasks[i].id # tasks[j].id

(***************************************************************************)
(* Delivery failures.  The entry "lost" follows the "deliver" entry of the  *)
(* same invocation of tick, which follows its "done" or "failed" entry.     *)
(***************************************************************************)
\* The index of the last "deliver" entry for task n before entry k
DeliverBefore(n, k) ==
    Max({ j \in 1..(k - 1) : wlog[j].ev = "deliver" /\ wlog[j].n = n })

\* The task with insertion number n still has what was recorded for it at
\* entry d - 1 (status) and d (the text handed to sendResult)
KeepsRecorded(n, d) ==
    \A i \in 1..Len(tasks) : serial[i] = n =>
        /\ tasks[i].status = wlog[d - 1].ev
        /\ tasks[i].status = "done" =>
              Has(tasks[i], "result") /\ tasks[i].result = wlog[d].text
        /\ tasks[i].status = "failed" =>
              Has(tasks[i], "error") /\ TaskFailedText(tasks[i].error) = wlog[d].text

\* C11: when sendResult rejects for a task, the rejection changes nothing in
\* the store and the next tick is scheduled (worker running); from then on the
\* task keeps the status, result and error recorded for it and next() never
\* hands it to the worker again.
C11_DeliveryFailureSwallowed ==
    /\ [][(Len(wlog') = Len(wlog) + 1 /\ wlog'[Len(wlog')].ev = "lost") =>
            /\ UNCHANGED <<tasks, disk>>
            /\ workerRunning => (workerTimeout' \in timers' \ timers)]_vars
    /\ [](\A k \in 1..Len(wlog) : wlog[k].ev = "lost" =>
            /\ KeepsRecorded(wlog[k].n, DeliverBefore(wlog[k].n, k))
            /\ \A j \in (k + 1)..Len(wlog) :
                  ~(wlog[j].ev = "running" /\ wlog[j].n = wlog[k].n))

(***************************************************************************)
(* Durability of the task store.                                            *)
(***************************************************************************)
\* C12: between calls the backing file encodes exactly the task list in
\* memory (no file: no tasks), so a new TaskQueue constructed on the same
\* directory after a crash holds the list of the last completed mutating call,
\* with the same ids, order, statuses, results, errors and completion times.
C12_FileEncodesTaskList ==
    /\ [](tasks = Load(disk))
    /\ [](ret.op = "load" => tasks = ret.before)

\* C12 witness: a store with a done and a failed task has been reloaded.
C12_Witness ==
    /\ ret.op = "load"
    /\ Len(tasks) = 2
    /\ tasks[1].status = "done" /\ Has(tasks[1], "result")
    /\ tasks[2].status = "failed" /\ Has(tasks[2], "error")

(***************************************************************************)
(* Invariants of the task record.                                           *)
(***************************************************************************)
IsFinal(t) == t.status \in {"done", "failed"}

\* C13: a task has completedAt if and only if its status is done or failed,
\* after any sequence of TaskQueue calls with any ids.
C13_CompletedAtIffFinal ==
    \A i \in 1..Len(tasks) : Has(tasks[i], "completedAt") <=> IsFinal(tasks[i])

\* C14: a task has result if and only if it is done and error if and only if
\* it is failed, so never both, after any sequence of TaskQueue calls with any
\* ids.
C14_ResultIffDoneErrorIffFailed ==
    \A i \in 1..Len(tasks) :
        /\ Has(tasks[i], "result") <=> tasks[i].status = "done"
        /\ Has(tasks[i], "error") <=> tasks[i].status = "failed"

\* C15: every add yields an id that no task of the store has, also for tasks
\* added in the same millisecond, so that markRunning, complete and fail by the
\* id of a task change that task and no other.
C15_IdsUnique ==
    /\ [](\A i \in 1..Len(tasks) : FindIdFrom(tasks, tasks[i].id, 1) = i)
    /\ [][(\E d \in Descriptions, r \in RandSuffix : Add(d, r)) =>
            \A i \in 1..Len(tasks) : tasks[i].id # tasks'[ret'.idx].id]_vars

\* What the claim has prune remove: a done or failed task whose age, now minus
\* completedAt, is greater than maxAge
StrictlyOlder(t, maxAgeMs, time) ==
    IsFinal(t) /\ Has(t, "completedAt") /\ time - t.completedAt > maxAgeMs

\* C16: prune(maxAge) removes exactly the done and failed tasks strictly older
\* than maxAge, keeps every pending and running task and every task of age
\* maxAge or less, keeps the order of what remains and returns the number of
\* tasks removed.
C16_PruneRemovesStrictlyOlder ==
    [][(\E a \in 0..MaxTime : CallPrune(a)) =>
        /\ tasks' = SelectSeq(tasks, LAMBDA t : ~StrictlyOlder(t, ret'.maxAge, now))
        /\ ret'.count = Len(tasks) - Len(tasks')]_vars

(***************************************************************************)
(* Replies of the interactive dispatcher.                                   *)
(***************************************************************************)
\* C17, as stated: every processMessage call has delivered at least one text
\* to the chat by the time it returns, which is before the next message is
\* taken, whatever the outcomes of agent.prompt and of the sends.
C17_EveryMessageGetsReply ==
    \A k \in 1..Len(replies) : replies[k].sent >= 1

\* C17, amended: every processMessage call has delivered at least one text by
\* the time it returns, whatever the outcome of agent.prompt, unless two of its
\* sends were rejected: that of a response chunk and that of the "Error: ..."
\* message sent in its place.
C17_ReplyUnlessTransportFailsTwice ==
    /\ Len(replies) = Len(prompted) - Len(drains)
    /\ \A k \in 1..Len(replies) :
          /\ replies[k].sent >= 1 \/ replies[k].rejected = 2
          /\ replies[k].rejected <= 2

\* C17 witness: one message got its reply at the first send; for the next the
\* send was rejected and the "Error: ..." message was delivered in its place.
C17_Witness ==
    /\ Len(replies) = 2
    /\ replies[1].sent = 1 /\ replies[1].rejected = 0
    /\ replies[2].sent = 1 /\ replies[2].rejected = 1

(***************************************************************************)
(* Liveness of the background worker.                                       *)
(***************************************************************************)
Delivered(n) == \E k \in 1..Len(wlog) : wlog[k].ev = "deliver" /\ wlog[k].n = n

\* C18: with the worker started and not stopped, and every background prompt
\* settling, every task added eventually is done or failed and sendResult has
\* been called for it; no task stays pending forever.
C18_EveryTaskEventuallyDelivered ==
    \A n \in 1..(MaxTasks + 1) :
        (nAdded >= n /\ workerRunning) ~>
            (StatusOfSerial(n) \in {"done", "failed"} /\ Delivered(n))

(***************************************************************************)
(* Authorization.                                                           *)
(***************************************************************************)
\* C19: an update whose chat is not the configured one reaches no handler:
\* nothing is enqueued for it, agent.prompt and agent.reset are not called,
\* no message goes out, and the dispatcher is left as it was; every message
\* queued or in process belongs to the configured chat.
C19_OnlyAuthorizedChatHandled ==
    /\ [](\A k \in 1..Len(updates) :
            updates[k].chat # ConfigChatId =>
                ~updates[k].passed /\ updates[k].calls = <<>>)
    /\ [](\A i \in 1..Len(messageQueue) : messageQueue[i].chatId = ConfigChatId)
    /\ [](\A i \in 1..Len(drains) : drains[i].item.chatId = ConfigChatId)
    /\ [][(Len(updates') = Len(updates) + 1
            /\ updates'[Len(updates')].chat # ConfigChatId) =>
          UNCHANGED <<messageQueue, processing, drains, enqueued, prompted,
                      replies>>]_vars

\* C19 witness: a text of another chat was dropped while a prompt was in
\* flight; a text and a reset command of the configured chat were handled.
C19_Witness ==
    /\ Len(updates) = 3
    /\ updates[1].chat = ConfigChatId /\ updates[1].kind = "text"
    /\ updates[2].chat = OtherChatId /\ updates[2].kind = "text"
    /\ updates[3].chat = ConfigChatId /\ updates[3].kind = "reset"
    /\ Len(enqueued) = 1
    /\ Cardinality(OutstandingPrompts) = 1

(***************************************************************************)
(* Properties of splitMessage.                                              *)
(***************************************************************************)
\* C20: for every text longer than the limit, every chunk splitMessage
\* returns has length at most the limit.
C20_ChunksWithinLimit ==
    (split.pc = "done" /\ Len(split.text) > TELEGRAM_MAX_LENGTH) =>
        \A k \in 1..Len(split.chunks) : Len(split.chunks[k]) <= TELEGRAM_MAX_LENGTH

\* C20 witness: a text of more than twice the limit came back in three chunks,
\* the first cut at the limit for want of a boundary, the second at a space.
C20_Witness ==
    /\ split.pc = "done"
    /\ Len(split.text) > 2 * TELEGRAM_MAX_LENGTH
    /\ Len(split.chunks) = 3
    /\ Len(split.chunks[1]) = TELEGRAM_MAX_LENGTH
    /\ Len(split.chunks[2]) < TELEGRAM_MAX_LENGTH
    /\ split.text[TELEGRAM_MAX_LENGTH + Len(split.chunks[2]) + 1] = SP

\* C21: a text no longer than the limit, the empty text included, comes back
\* as the one-element sequence holding it.
C21_ShortTextUnsplit ==
    (split.pc = "done" /\ Len(split.text) <= TELEGRAM_MAX_LENGTH) =>
        split.chunks = <<split.text>>

\* C21 witness: the empty text came back as one empty chunk.
C21_Witness ==
    /\ split.pc = "done"
    /\ split.text = <<>>
    /\ split.chunks = << <<>> >>

AllSpace(s) == \A k \in 1..Len(s) : IsSpace(s[k])
IsPrefix(c, t) == Len(c) <= Len(t) /\ SubSeq(t, 1, Len(c)) = c
Drop(t, k) == SubSeq(t, k + 1, Len(t))

\* t is chunk1 + w1 + chunk2 + ... + chunkN for some whitespace w1..wN-1; with
\* tail allowed, a whitespace wN may follow chunkN
RECURSIVE Joins(_, _, _)
Joins(t, cs, tail) ==
    /\ cs # <<>>
    /\ IsPrefix(Head(cs), t)
    /\ LET rest == Drop(t, Len(Head(cs)))
       IN  IF Len(cs) = 1
           THEN IF tail THEN AllSpace(rest) ELSE rest = <<>>
           ELSE \E k \in 0..Len(rest) :
                   AllSpace(SubSeq(rest, 1, k)) /\ Joins(Drop(rest, k), Tail(cs), tail)

\* C22, as stated: a text longer than the limit is its chunks joined by runs of
\* whitespace, chunk1 + w1 + chunk2 + ... + chunkN.
C22_ChunksRejoinToText ==
    (split.pc = "done" /\ Len(split.text) > TELEGRAM_MAX_LENGTH) =>
        Joins(split.text, split.chunks, FALSE)

\* C22, amended: a text longer than the limit is its chunks joined and followed
\* by runs of whitespace, chunk1 + w1 + chunk2 + ... + chunkN + wN: the
\* whitespace trimmed after the last cut belongs to no chunk; no other
\* character is lost, duplicated or moved.
C22_ChunksRejoinUpToTrailingSpace ==
    (split.pc = "done" /\ Len(split.text) > TELEGRAM_MAX_LENGTH) =>
        Joins(split.text, split.chunks, TRUE)

\* C22 witness: a text cut twice, at a hard cut and at a newline, and ending in
\* whitespace that is in no chunk.
C22_Witness ==
    /\ split.pc = "done"
    /\ split.text = <<"a", "a", "a", "a", "a", "a", NL, SP, SP>>
    /\ split.chunks = << <<"a", "a", "a", "a">>, <<"a", "a">> >>

\* C23: splitMessage returns for every text, after at most as many iterations
\* as the text has characters; for a text longer than the limit no chunk is
\* empty, every chunk but the last has at least half the limit, and the chunks
\* together are no longer than the text.
RECURSIVE TotalLen(_)
TotalLen(cs) == IF cs = <<>> THEN 0 ELSE Len(Head(cs)) + TotalLen(Tail(cs))

C23_SplitMakesProgress ==
    (split.pc = "done" /\ Len(split.text) > TELEGRAM_MAX_LENGTH) =>
        /\ Len(split.chunks) <= Len(split.text)
        /\ TotalLen(split.chunks) <= Len(split.text)
        /\ \A k \in 1..Len(split.chunks) : Len(split.chunks[k]) >= 1
        /\ \A k \in 1..(Len(split.chunks) - 1) :
              2 * Len(split.chunks[k]) >= TELEGRAM_MAX_LENGTH

\* C23 witness: a cut at a space found exactly at half the limit.
C23_Witness ==
    /\ split.pc = "done"
    /\ Len(split.chunks) = 3
    /\ 2 * Len(split.chunks[1]) = TELEGRAM_MAX_LENGTH
    /\ split.text[Len(split.chunks[1]) + 1] = SP

(***************************************************************************)
(* Stopping the worker.                                                     *)
(***************************************************************************)
\* insertion numbers of the tasks whose status is "running"
RunningTasks == { serial[i] : i \in { j \in 1..Len(tasks) : tasks[j].status = "running" } }

\* C24: from a stop() on, until start() is called again, the worker marks no
\* task running and issues no background prompt, whether stop() came while a
\* timer was pending or while a task was executing.
C24_StoppedWorkerStartsNothing ==
    [][(life = "stopped" /\ life' = "stopped") =>
          /\ Len(ticks') <= Len(ticks)
          /\ Cardinality(ExecutingTicks') <= Cardinality(ExecutingTicks)
          /\ RunningTasks' \subseteq RunningTasks
          /\ timers' \subseteq timers]_vars

\* C24 witness: stop() came while a task was executing; the task has been
\* completed and delivered since, another task is pending, and nothing is
\* scheduled.
C24_Witness ==
    /\ life = "stopped" /\ ~workerRunning
    /\ ticks = <<>> /\ timers = {}
    /\ Len(tasks) = 2
    /\ tasks[1].status = "done" /\ tasks[2].status = "pending"
    /\ Len(wlog) = 4 /\ wlog[4].ev = "sent"

(***************************************************************************)
(* Shutdown.                                                                *)
(***************************************************************************)
\* C25: a shutdown signal does not abort the operation in flight: when the
\* process ends, no task is left in status running in the backing file and
\* no processMessage call is left without its reply.
C25_ShutdownLetsInFlightFinish ==
    life = "exited" =>
        /\ \A i \in 1..Len(Load(disk)) : Load(disk)[i].status # "running"
        /\ drains = <<>>

(***************************************************************************)
(* The typing interval of processMessage.                                   *)
(***************************************************************************)
TypingIntervals == { i \in 1..Len(drains) : drains[i].typing }

\* C26: every processMessage call has cleared its typing interval by the time
\* it returns, whichever way it returns; at most one interval is set at any
\* time, and none while the dispatcher is idle.
C26_TypingIntervalCleared ==
    /\ \A k \in 1..Len(replies) : ~replies[k].typing
    /\ Cardinality(TypingIntervals) <= 1
    /\ ~processing => TypingIntervals = {}

\* C26 witness: three calls have returned, one after its sends resolved, one
\* after a rejected send and a delivered error message, one after a rejected
\* send and a rejected error message; the dispatcher is idle.
C26_Witness ==
    /\ ~processing /\ drains = <<>>
    /\ Len(replies) = 3
    /\ replies[1].rejected = 0 /\ replies[1].sent >= 1
    /\ replies[2].rejected = 1 /\ replies[2].sent >= 1
    /\ replies[3].rejected = 2

(***************************************************************************)
(* The tools of the agent.                                                  *)
(***************************************************************************)
\* C27: execute of the memory tool and of the queue_task tool never rejects:
\* whatever the parameters and whatever call of the store fails, its promise
\* resolves with a non-empty text.
C27_ToolsNeverReject ==
    ret.op \in {"memory", "queue_task"} =>
        /\ ret.result.settled = "resolved"
        /\ ret.result.text # <<>>

\* The descriptions of the pending tasks, in the order of the list
PendingWork(ts) ==
    LET P == SelectSeq(ts, LAMBDA t : t.status = "pending")
    IN  [i \in 1..Len(P) |-> P[i].description]

\* C28: queue_task called again with the same call id and description as the
\* call before it (a retry) leaves the pending work of the store as it was.
C28_QueueTaskRetryIdempotent ==
    [][\A c \in ToolCallIds, d \in Descriptions :
          ( /\ ret.op = "queue_task" /\ ret.callId = c /\ ret.description = d
            /\ \E r \in RandSuffix, f \in 0..1 : QueueToolExecute(c, d, r, f) )
          => PendingWork(tasks') = PendingWork(tasks)]_vars

(***************************************************************************)
(* agent.prompt.                                                            *)
(***************************************************************************)
\* C29: agent.prompt never rejects. Once mainSession.prompt has settled the
\* call has resolved and its listener is unsubscribed; the text is
\* "Error: <message>" when the session threw, "(no response)" when it
\* produced no text, and what it produced otherwise: never the empty text.
C29_AgentPromptAlwaysResolves ==
    \A i \in 1..Len(drains) :
        LET a == drains[i].agent
        IN  /\ a.settled \in {"pending", "resolved"}
            /\ (a.settled = "pending") = (drains[i].pc = "prompt")
            /\ a.settled = "pending" => a.subscribed
            /\ a.settled = "resolved" =>
                  /\ ~a.subscribed
                  /\ a.text # <<>>
                  /\ ~a.outcome.ok => a.text = ErrorText(a.outcome.text)
                  /\ (a.outcome.ok /\ a.outcome.text = <<>>) => a.text = NO_RESPONSE
                  /\ (a.outcome.ok /\ a.outcome.text # <<>>) => a.text = a.outcome.text

\* C29 witness: one processMessage call has returned; in the next the session
\* threw, agent.prompt has resolved with the error text, and it is being sent.
C29_Witness ==
    /\ Len(replies) = 1 /\ Len(drains) = 1
    /\ drains[1].pc = "send"
    /\ drains[1].agent.settled = "resolved"
    /\ ~drains[1].agent.outcome.ok
    /\ drains[1].chunks # <<>>
    /\ prompted = <<"m1", "m2">>

(***************************************************************************)
(* Loading the store.                                                       *)
(***************************************************************************)
\* C30: a TaskQueue constructed over no file, over a file that cannot be read
\* or over a corrupt file (one that JSON.parse rejects) starts as the empty
\* list and next() returns none; the calls that follow do what they do on a
\* fresh store: add leaves the one new task, in memory and in the file, and
\* markRunning, complete, fail and prune change nothing.
C30_LoadOverBadFileStartsEmpty ==
    [][ /\ \A readable \in BOOLEAN :
              (NewTaskQueueOn(readable) /\ BadFile(disk, readable)) =>
                  (tasks' = <<>> /\ NextTask(tasks') = NoTask)
        /\ (ret.op = "load" /\ ret.bad) =>
              /\ \A d \in Descriptions, r \in RandSuffix :
                    Add(d, r) => /\ tasks' = AddTask(<<>>, MakeId(now, r), d, now)
                                 /\ disk' = Save(tasks')
              /\ ( \/ CallNext
                   \/ \E id \in Ids : CallMarkRunning(id)
                   \/ \E id \in Ids, res \in Results : CallComplete(id, res)
                   \/ \E id \in Ids, e \in BgErrors : CallFail(id, e)
                   \/ \E a \in 0..MaxTime : CallPrune(a) )
                 => (tasks' = <<>> /\ disk' = disk /\ ret'.op # "load")
      ]_vars

\* C30 witness: a store that held a task has been constructed again over its
\* file cut short after the first task, and holds nothing.
C30_Witness ==
    /\ ret.op = "load" /\ ret.bad
    /\ ret.before # <<>>
    /\ tasks = <<>>
    /\ disk # NoFile
    /\ \A file \in disk : ~file.complete /\ Len(file.text) >= 1

(***************************************************************************)
(* What markRunning, complete and fail leave alone.                         *)
(***************************************************************************)
IdPresent(id) == \E i \in 1..Len(tasks) : tasks[i].id = id
StatusCall(id) ==
    \/ CallMarkRunning(id)
    \/ \E res \in Results : CallComplete(id, res)
    \/ \E e \in BgErrors : CallFail(id, e)

\* C31: markRunning, complete and fail with an id that no task has leave the
\* list and the file as they are; with an id that a task has they change one
\* task with that id and leave every other task, and the order, as they are.
C31_StatusCallsTouchOneTask ==
    [][\A id \in Ids : StatusCall(id) =>
          IF ~IdPresent(id)
          THEN tasks' = tasks /\ disk' = disk
          ELSE /\ Len(tasks') = Len(tasks)
               /\ \A j \in 1..Len(tasks) : tasks'[j].id = tasks[j].id
               /\ \E i \in 1..Len(tasks) :
                     /\ tasks[i].id = id
                     /\ \A j \in 1..Len(tasks) : j # i => tasks'[j] = tasks[j]
               /\ disk' = Save(tasks')]_vars

\* C31 witness: of two tasks with different ids the second has been completed
\* and the first is as it was added.
C31_Witness ==
    /\ ret.op = "complete"
    /\ Len(tasks) = 2
    /\ tasks[1].id # tasks[2].id
    /\ tasks[1].status = "pending" /\ ~Has(tasks[1], "completedAt")
    /\ tasks[2].status = "done" /\ ret.id = tasks[2].id

(***************************************************************************)
(* The memory files.                                                        *)
(***************************************************************************)
\* The file of week w is its header, once, and then entry lines of that week
WellFormedWeek(w) ==
    LET c == memFiles[w].content
    IN  /\ Len(c) >= 1
        /\ c[1] = [line |-> "header", week |-> w]
        /\ \A k \in 2..Len(c) : c[k].line = "entry" /\ WeekIdOf(c[k].at) = w

\* A step in which the memory tool appended the entry e and returned "Saved
\* to memory."
AppendSaved(e) ==
    /\ memFiles' # memFiles
    /\ ret'.op = "memory" /\ ret'.action = "append" /\ ret'.entry = e
    /\ ~ret'.result.isError

\* C32: a week file is its header, written once when the file is created, and
\* then one line per append, with its timestamp, in call order: every append
\* adds its line at the end of the file of the current week (after the header
\* when it creates the file), no step changes or removes what a file holds,
\* and loadWeek of a week without a file returns the empty text.
C32_MemoryAppendOnly ==
    /\ [](\A w \in WeekIds : WeekExists(memFiles, w) => WellFormedWeek(w))
    /\ [](\A w \in WeekIds : ~WeekExists(memFiles, w) =>
              LoadWeek(memFiles, w, now, 0) = [threw |-> FALSE, content |-> <<>>])
    /\ [][\A w \in WeekIds : WeekExists(memFiles, w) =>
              /\ WeekExists(memFiles', w)
              /\ Len(memFiles'[w].content) >= Len(memFiles[w].content)
              /\ SubSeq(memFiles'[w].content, 1, Len(memFiles[w].content))
                    = memFiles[w].content]_vars
    /\ [][\A e \in Entries : AppendSaved(e) =>
              LET w    == WeekIdOf(now)
                  old  == IF WeekExists(memFiles, w) THEN memFiles[w].content
                          ELSE << [line |-> "header", week |-> w] >>
              IN  /\ memFiles'[w].content =
                        Append(old, [line |-> "entry", at |-> now, entry |-> e])
                  /\ \A v \in WeekIds \ {w} : memFiles'[v] = memFiles[v]]_vars

\* C32 witness: the file of week 0 holds its header and two entries in the
\* order of their appends; week 1 has begun and has no file.
C32_Witness ==
    /\ now = 1
    /\ memFiles[0].exists /\ ~memFiles[1].exists
    /\ Len(memFiles[0].content) = 3
    /\ memFiles[0].content[2].entry = "e2"
    /\ memFiles[0].content[3].entry = "e1"

(***************************************************************************)
(* Tasks left running by a process that ended.                              *)
(***************************************************************************)
\* C33: a task that the file holds as running when the program is started
\* again stays running: next() never returns it, the worker never changes its
\* status, and sendResult is never called for it.
C33_NoRequeueAfterCrash ==
    \A k \in 1..Len(wlog) : wlog[k].ev = "boot" =>
        \A n \in wlog[k].running :
            /\ StatusOfSerial(n) = "running"
            /\ SerialOf(NextTask(tasks)) # n
            /\ \A j \in (k + 1)..Len(wlog) :
                  wlog[j].ev # "boot" =>
                      /\ wlog[j].n # n
                      /\ IsStatusEntry(wlog[j]) => wlog[j].m # n

(***************************************************************************)
(* Where splitMessage cuts.                                                 *)
(***************************************************************************)
\* The offsets from half the limit to the limit at which pat occurs in t
BoundariesAt(t, pat) ==
    { i \in 0..TELEGRAM_MAX_LENGTH :
        /\ 2 * i >= TELEGRAM_MAX_LENGTH
        /\ i + Len(pat) <= Len(t)
        /\ \A k \in 1..Len(pat) : t[i + k] = pat[k] }
Last(S) == CHOOSE i \in S : \A j \in S : j <= i
PreferredOffset(t) ==
    IF BoundariesAt(t, <<NL, NL>>) # {} THEN Last(BoundariesAt(t, <<NL, NL>>))
    ELSE IF BoundariesAt(t, <<NL>>) # {} THEN Last(BoundariesAt(t, <<NL>>))
    ELSE IF BoundariesAt(t, <<SP>>) # {} THEN Last(BoundariesAt(t, <<SP>>))
    ELSE TELEGRAM_MAX_LENGTH

\* C34: a text longer than the limit L is cut at the last double line-break
\* at an offset from L/2 to L if there is one, else at the last line-break
\* there, else at the last space there, else at L. Every remainder the loop
\* cuts is itself one of the texts, so the first cut of every text is every
\* cut.
C34_BoundaryPreference ==
    (split.pc = "done" /\ Len(split.text) > TELEGRAM_MAX_LENGTH) =>
        /\ Len(split.chunks) >= 1
        /\ split.chunks[1] = SubSeq(split.text, 1, PreferredOffset(split.text))

\* C34 witness: the text has a double line-break at offset 2, a line-break at
\* 3 and a space at 4, and is cut at 2.
C34_Witness ==
    /\ split.pc = "done"
    /\ split.text = <<"a", "a", NL, NL, SP, "a">>
    /\ split.chunks[1] = <<"a", "a">>

(***************************************************************************)
(* The error path of processMessage.                                        *)
(***************************************************************************)
\* The send of a response chunk by the invocation at i is rejected in this step
ChunkSendFails(i) ==
    /\ i \in 1..Len(drains)
    /\ drains[i].pc = "send"
    /\ Len(drains') = Len(drains)
    /\ drains'[i].rejected = drains[i].rejected + 1
\* The error send of the invocation at i settles in this step
ErrorSendDone(i) ==
    /\ i \in 1..Len(drains)
    /\ drains[i].pc = "errsend"
    /\ drains' # drains

OnLiveSession(i) == drains[i].on = mainSession.id /\ ~mainSession.disposed

\* C36: every agent.prompt awaiting its session is running on the session
\* mainSession refers to, and dispose() has not been called on that session:
\* no prompt is issued to a disposed session and none is left executing on
\* one.
C36_NoPromptOnDisposedSession ==
    \A i \in 1..Len(drains) : drains[i].pc = "prompt" => OnLiveSession(i)

(***************************************************************************)
(* The restart reason.                                                      *)
(***************************************************************************)
ReportsCleanShutdown(reason) == Len(reason) = 3 /\ reason[1] = "clean shutdown ("
ReportsUnknown(reason) ==
    reason \in { <<"unknown (possible crash or first start)">>,
                 <<"unknown (corrupt state file)">> }

\* C37: the reason reported at startup is "clean shutdown (<signal>)" only
\* when the run before this one ended in the shutdown handler, and is
\* "unknown" when that run crashed and when the state file is absent or
\* corrupt. ret.after is how the run before ended and ret.found is the state
\* file as startup found it.
C37_ReasonReflectsLastRun ==
    ret.op = "boot" =>
        /\ ReportsCleanShutdown(ret.reason) => ret.after = "exited"
        /\ (ret.after = "crashed" \/ ret.found \in {NoState, CorruptState}) =>
              ReportsUnknown(ret.reason)

(***************************************************************************)
(* The processing flag.                                                     *)
(***************************************************************************)
\* C38: whenever control is at the event loop, processing is true exactly
\* when a drain loop is suspended at an await; with processing false the
\* message queue is empty, so no message waits with no loop to take it, and
\* once the loop has ended the flag is false.
C38_FlagIffDrainActive ==
    /\ processing <=> Len(drains) >= 1
    /\ ~processing => messageQueue = <<>>
    /\ drains = <<>> => messageQueue = <<>>

\* C38 witness: the loop has processed one message and awaits the send for
\* the next while another message waits in the queue.
C38_Witness ==
    /\ processing
    /\ Len(replies) = 1
    /\ Len(drains) = 1
    /\ drains[1].pc = "send"
    /\ Len(messageQueue) = 1
=============================================================================
